---- MODULE Spec2Model ----
(***************************************************************************)
(* Model of the RaccoonAI bridge: the WhatsAppConnectionManager of         *)
(* extensions/raccoonai-bridge/src/whatsapp-connection.ts (connections,    *)
(* inbound messages, initialize, shutdown, credential files, phone         *)
(* lookup), the webhook forwarder of src/bridge.ts and the                 *)
(* /raccoonai/send HTTP handler of the plugin entry point.                 *)
(*                                                                         *)
(* UserConnection objects and sockets are heap objects: closures keep      *)
(* them alive after the connection map has dropped them, so both are kept  *)
(* in growing sequences (conns, socks) and referred to by index; 0 is      *)
(* null / absent.  lastConnectedAt and authDir are never read by the code  *)
(* modelled here and are left out of the UserConnection record.            *)
(*                                                                         *)
(* The socket itself is the Baileys library.  It is modelled by the        *)
(* events it emits: a socket is created "connecting", may emit one         *)
(* connection.update open, emits messages.upsert only while open, and      *)
(* emits at most one connection.update close, after which it emits         *)
(* nothing (the library's end() is guarded by its closed flag).            *)
(*                                                                         *)
(* An action is one synchronous stretch of a handler: from its entry or    *)
(* the settling of an awaited I/O call to the next such await.             *)
(***************************************************************************)
EXTENDS Integers, Sequences, FiniteSets, TLC

\* ---------------------------------------------------------------- bounds
MaxConns == 2
MaxSocks == 4
MaxMsgs == 2
MaxInits == 1
MaxForwards == 2

\* ------------------------------------------------------------- constants
Users == {"u1", "u2"}
\* the users of the session-lifecycle specification
SessionUsers == {"u1"}

restartRequired == 515
connectionReplaced == 440
loggedOut == 401
connectionClosed == 428
undefinedCode == 0

MaxReconnectAttempts == 3

CloseCodes == {restartRequired, connectionReplaced, loggedOut, connectionClosed}

NoPhone == <<>>

\* credentials handed to connectUser: a name for the blob set and the
\* creds.me.id JID it embeds (<<>> when absent)
CredsA == [name |-> "credsA", me |-> <<>>]
CredsB == [name |-> "credsB", me |-> <<"9", ":", "2", "@", "s">>]
Credentials == {CredsA, CredsB}

MetaPhones == {NoPhone, <<"1", "5">>}
SockUserIds == {<<"5", ":", "1", "@", "s">>}

VARIABLES
  connections,    \* Map<string, UserConnection>: userId -> index in conns, 0 = absent
  conns,          \* every UserConnection object ever constructed
  socks,          \* every socket ever made by makeWASocket
  timers,         \* pending setTimeout(() => createSocket(userConn), 2000), per conn
  creating,       \* createSocket calls suspended at their awaits, per conn
  authFiles,      \* credential directory per user: name of the blob set written
  lastOp,         \* the operation, handler or step that ran last, with its result
  onMessageCallback, \* whether setOnMessage has registered the callback
  upserts,        \* messages.upsert handler invocations suspended at an await
  emitted,        \* number of messages the sockets have emitted so far
  delivered,      \* invocations of the registered callback, in order
  isInitialized,  \* WhatsAppConnectionManager.isInitialized
  inits,          \* initialize() invocations suspended at an await
  keyOrder,       \* the keys of the connection map in iteration order (kept by SpecPhone)
  credDir,        \* one user's credential directory, file by file
  bridgeConfig,   \* bridge.ts: the module-level bridgeConfig
  netCalls        \* number of POSTs forwardToRaccoonAI has issued to the webhook

vars == <<connections, conns, socks, timers, creating, authFiles, lastOp,
          onMessageCallback, upserts, emitted, delivered,
          isInitialized, inits, keyOrder, credDir, bridgeConfig, netCalls>>

\* initialize() and its flag
initVars == <<isInitialized, inits>>

\* the state behind the pure operations: the order of the map's keys, the
\* files of a credential directory, the forwarder's configuration and calls
auxVars == <<keyOrder, credDir, bridgeConfig, netCalls>>

\* the inbound message path
msgVars == <<onMessageCallback, upserts, emitted, delivered>>

\* the manager's own state, without the record of the last operation
managerVars == <<connections, conns, socks, timers, creating, authFiles>>

ConnIds == 1..MaxConns

\* ------------------------------------------------------------- helpers
RECURSIVE Before(_, _)
\* s.split(ch)[0]: the prefix of s before the first ch
Before(s, ch) ==
  IF s = <<>> \/ Head(s) = ch THEN <<>>
  ELSE <<Head(s)>> \o Before(Tail(s), ch)

\* jid.split("@")[0].split(":")[0]
JidPhone(jid) == Before(Before(jid, "@"), ":")

extractPhone(credentials, metaPhone) ==
  IF metaPhone # NoPhone THEN metaPhone
  ELSE IF credentials.me # <<>> THEN JidPhone(credentials.me)
  ELSE NoPhone

NoError == <<"none">>
LoggedOutError == <<"logged_out">>
DisconnectError(code) == <<"disconnect", code>>

UserConnection(userId, phone) ==
  [userId |-> userId, socket |-> 0, status |-> "connecting",
   phone |-> phone, error |-> NoError, reconnectAttempts |-> 0]

Inc(f, c) == [f EXCEPT ![c] = @ + 1]
Dec(f, c) == [f EXCEPT ![c] = @ - 1]

\* what lastOp holds after a step that returns nothing to a caller
Event == [op |-> "event"]

\* the files of a credential directory: <key>.json for the keys of the
\* credentials map; "creds" is the primary record
FileNames == {"creds", "keys"}

\* A JSON value or the content of a file: its shape ("object", "string",
\* "null" for the value null or a missing key, "absent" for a file that does
\* not exist), a name for the rest of its content, and its registered field
\* ("true", "false" or "missing").
Json(shape, body, registered) ==
  [shape |-> shape, body |-> body, registered |-> registered]

Null == Json("null", "", "missing")
Absent == Json("absent", "", "missing")

\* --------------------------------------------------------------- Init
Init ==
  /\ connections = [u \in Users |-> 0]
  /\ conns = <<>>
  /\ socks = <<>>
  /\ timers = [c \in ConnIds |-> 0]
  /\ creating = [c \in ConnIds |-> 0]
  /\ authFiles = [u \in Users |-> "none"]
  /\ lastOp = [op |-> "init"]
  /\ onMessageCallback = FALSE
  /\ upserts = {}
  /\ emitted = 0
  /\ delivered = <<>>
  /\ isInitialized = FALSE
  /\ inits = <<>>
  /\ keyOrder = <<>>
  /\ credDir = [f \in FileNames |-> Absent]
  /\ bridgeConfig = [enabled |-> "unset", webhookUrl |-> ""]
  /\ netCalls = 0

\* ------------------------------------------------------- connectUser
\* an existing-session check on the wrong status
AlreadyConnected_wrongStatus(userId) ==
  /\ connections[userId] # 0
  /\ conns[connections[userId]].status = "connecting"

AlreadyConnected(userId) ==
  /\ connections[userId] # 0
  /\ conns[connections[userId]].status = "connected"

\* connectUser up to the suspension of createSocket at useMultiFileAuthState.
\* writeCredentials has no await in its body, so "await writeCredentials"
\* resumes in the microtask checkpoint of the calling task: no timer, socket
\* event or request handler runs in between, and the call is atomic up to
\* createSocket's first await.
ConnectUser(userId, credentials, metaPhone) ==
  IF AlreadyConnected(userId)
  THEN UNCHANGED managerVars
  ELSE /\ Len(conns) < MaxConns
       /\ authFiles' = [authFiles EXCEPT ![userId] = credentials.name]
       /\ conns' = Append(conns,
                     UserConnection(userId, extractPhone(credentials, metaPhone)))
       /\ connections' = [connections EXCEPT ![userId] = Len(conns) + 1]
       /\ creating' = Inc(creating, Len(conns) + 1)
       /\ UNCHANGED <<socks, timers>>

\* -------------------------------------------------------- createSocket
\* createSocket after its awaits: makeWASocket, store the socket, attach handlers
CreateSocketResume(c) ==
  /\ c \in 1..Len(conns)
  /\ creating[c] > 0
  /\ Len(socks) < MaxSocks
  /\ creating' = Dec(creating, c)
  /\ socks' = Append(socks, [owner |-> c, state |-> "connecting"])
  /\ conns' = [conns EXCEPT ![c].socket = Len(socks) + 1,
                            ![c].status = "connecting"]
  /\ UNCHANGED <<connections, timers, authFiles>>

\* ------------------------------------- connection.update: open (189-209)
\* a handshake handler that forgets to reset the reconnect counter
OnOpen_keepsAttempts(uc, sockUserId) ==
  [uc EXCEPT !.status = "connected",
             !.error = NoError,
             !.phone = IF sockUserId # <<>> THEN JidPhone(sockUserId) ELSE @]

OnOpen(uc, sockUserId) ==
  [uc EXCEPT !.status = "connected",
             !.reconnectAttempts = 0,
             !.error = NoError,
             !.phone = IF sockUserId # <<>> THEN JidPhone(sockUserId) ELSE @]

\* the socket completes its handshake and emits connection.update open
SocketOpen(s, sockUserId) ==
  /\ s \in 1..Len(socks)
  /\ socks[s].state = "connecting"
  /\ socks' = [socks EXCEPT ![s].state = "open"]
  /\ conns' = [conns EXCEPT ![socks[s].owner] = OnOpen(@, sockUserId)]
  /\ UNCHANGED <<connections, timers, creating, authFiles>>

\* ------------------------------------ connection.update: close (211-248)
shouldReconnect(statusCode) ==
  \/ statusCode = restartRequired
  \/ statusCode = 515
  \/ statusCode = connectionReplaced

\* an off-by-one attempt cap
Reconnects_offByOne(uc, statusCode) ==
  /\ shouldReconnect(statusCode)
  /\ uc.reconnectAttempts <= MaxReconnectAttempts
  /\ uc.status # "error"

\* a close handler that reconnects whatever the attempt count
Reconnects_uncapped(uc, statusCode) ==
  /\ shouldReconnect(statusCode)
  /\ uc.status # "error"

Reconnects(uc, statusCode) ==
  /\ shouldReconnect(statusCode)
  /\ uc.reconnectAttempts < MaxReconnectAttempts
  /\ uc.status # "error"

\* a close handler whose reconnect branch leaves the status as it was
OnClose_keepsStatus(uc, statusCode) ==
  IF Reconnects(uc, statusCode)
  THEN [uc EXCEPT !.reconnectAttempts = @ + 1]
  ELSE IF statusCode = loggedOut
  THEN [uc EXCEPT !.status = "error", !.error = LoggedOutError]
  ELSE [uc EXCEPT !.status = "disconnected", !.error = DisconnectError(statusCode)]

OnClose(uc, statusCode) ==
  IF Reconnects(uc, statusCode)
  THEN [uc EXCEPT !.reconnectAttempts = @ + 1, !.status = "connecting"]
  ELSE IF statusCode = loggedOut
  THEN [uc EXCEPT !.status = "error", !.error = LoggedOutError]
  ELSE [uc EXCEPT !.status = "disconnected", !.error = DisconnectError(statusCode)]

\* a close handler that schedules the reconnect before looking at the session
CloseEffect_alwaysSchedules(s, statusCode) ==
  LET c == socks[s].owner IN
  /\ conns' = [conns EXCEPT ![c] = OnClose(@, statusCode)]
  /\ timers' = IF shouldReconnect(statusCode) \/ statusCode = loggedOut
               THEN Inc(timers, c) ELSE timers

\* the effect of socket s emitting connection.update close on conns and timers
CloseEffect(s, statusCode) ==
  LET c == socks[s].owner IN
  /\ conns' = [conns EXCEPT ![c] = OnClose(@, statusCode)]
  /\ timers' = IF Reconnects(conns[c], statusCode) THEN Inc(timers, c) ELSE timers

\* the socket's connection ends and it emits connection.update close
SocketClose(s, statusCode) ==
  /\ s \in 1..Len(socks)
  /\ socks[s].state # "closed"
  /\ socks' = [socks EXCEPT ![s].state = "closed"]
  /\ CloseEffect(s, statusCode)
  /\ UNCHANGED <<connections, creating, authFiles>>

\* setTimeout callback (233): createSocket(userConn) runs up to its first await
ReconnectTimerFire(c) ==
  /\ c \in 1..Len(conns)
  /\ timers[c] > 0
  /\ timers' = Dec(timers, c)
  /\ creating' = Inc(creating, c)
  /\ UNCHANGED <<connections, conns, socks, authFiles>>

\* ------------------------------------------------------ disconnectUser
\* socket.end(undefined) either emits connection.update close (no status
\* code) synchronously, unless the socket has closed already, or throws and
\* is ignored (endOk = FALSE)
DisconnectUser(userId, endOk) ==
  LET c == connections[userId]
      s == IF c = 0 THEN 0 ELSE conns[c].socket IN
  /\ IF s # 0 /\ endOk /\ socks[s].state # "closed"
     THEN /\ socks' = [socks EXCEPT ![s].state = "closed"]
          /\ CloseEffect(s, undefinedCode)
     ELSE UNCHANGED <<socks, conns, timers>>
  /\ connections' = [connections EXCEPT ![userId] = 0]
  /\ UNCHANGED <<creating, authFiles>>

\* --------------------------------------------------------- sendMessage
\* userIds a caller may name: the users of the map and one it has never held
UserIdArgs == Users \cup {"nobody"}

\* this.connections.get(userId)
LookupConn(userId) == IF userId \in Users THEN connections[userId] ELSE 0

\* The return value of sendMessage, with the socket whose sendMessage was
\* called (sock, 0 when none was).  sendOk is the outcome of the socket's
\* send: it resolves, or it throws and the catch returns the failure.  The
\* content envelope built from text and mediaUrl does not affect the outcome.
\* a sendMessage without the status check
sendMessage_noStatusCheck(userId, sendOk) ==
  LET c == LookupConn(userId) IN
  IF c = 0 \/ conns[c].socket = 0
  THEN [success |-> FALSE, error |-> <<"User not connected">>, sock |-> 0]
  ELSE IF sendOk
  THEN [success |-> TRUE, error |-> <<>>, sock |-> conns[c].socket]
  ELSE [success |-> FALSE, error |-> <<"Send failed">>, sock |-> conns[c].socket]

sendMessage(userId, sendOk) ==
  LET c == LookupConn(userId) IN
  IF c = 0 \/ conns[c].socket = 0
  THEN [success |-> FALSE, error |-> <<"User not connected">>, sock |-> 0]
  ELSE IF conns[c].status # "connected"
  THEN [success |-> FALSE, error |-> <<"Connection status: ", conns[c].status>>,
        sock |-> 0]
  ELSE IF sendOk
  THEN [success |-> TRUE, error |-> <<>>, sock |-> conns[c].socket]
  ELSE [success |-> FALSE, error |-> <<"Send failed">>, sock |-> conns[c].socket]

SendMessage(userId, sendOk) ==
  /\ lastOp' = [op |-> "sendMessage", userId |-> userId,
                result |-> sendMessage(userId, sendOk)]
  /\ UNCHANGED <<managerVars, msgVars, initVars, auxVars>>

\* ------------------------------------------- POST /raccoonai/send handler
\* a lookup that forgets the status filter
getConnectedUserIds_anyEntry == {u \in Users : connections[u] # 0}

getConnectedUserIds ==
  {u \in Users : connections[u] # 0 /\ conns[connections[u]].status = "connected"}

\* a request: its method, whether its body parses to a payload object, and the
\* payload's fields ("" is a missing field)
HttpRequests ==
  [method : {"POST"}, parses : {TRUE}, integrationId : {"whatsapp", "telegram"},
   chatId : {"123@x"}, text : {"hi"}, userId : {""} \cup UserIdArgs]
  \cup
  { [method |-> "POST", parses |-> TRUE, integrationId |-> "", chatId |-> "123@x",
     text |-> "hi", userId |-> ""],
    [method |-> "POST", parses |-> TRUE, integrationId |-> "whatsapp", chatId |-> "",
     text |-> "hi", userId |-> "u1"],
    [method |-> "POST", parses |-> TRUE, integrationId |-> "whatsapp", chatId |-> "123@x",
     text |-> "", userId |-> ""],
    [method |-> "POST", parses |-> FALSE, integrationId |-> "", chatId |-> "",
     text |-> "", userId |-> ""],
    [method |-> "GET", parses |-> TRUE, integrationId |-> "whatsapp", chatId |-> "123@x",
     text |-> "hi", userId |-> ""] }

Response(req, status, success, error, sentTo, sock) ==
  [op |-> "http", req |-> req, status |-> status, success |-> success,
   error |-> error, sentTo |-> sentTo, sock |-> sock]

\* a handler that answers every send attempt with 200
HandleSend_always200(req, sendOk) ==
  IF req.method # "POST"
  THEN Response(req, 405, FALSE, <<"Method not allowed">>, "", 0)
  ELSE IF ~req.parses
  THEN Response(req, 500, FALSE, <<"Internal error">>, "", 0)
  ELSE IF req.integrationId = "" \/ req.chatId = "" \/ req.text = ""
  THEN Response(req, 400, FALSE, <<"Missing required fields">>, "", 0)
  ELSE IF req.userId = "" /\ Cardinality(getConnectedUserIds) = 0
  THEN Response(req, 500, FALSE, <<"No WhatsApp connections available">>, "", 0)
  ELSE IF req.userId = "" /\ Cardinality(getConnectedUserIds) # 1
  THEN Response(req, 400, FALSE, <<"Multiple users connected, userId required">>, "", 0)
  ELSE LET userId == IF req.userId # "" THEN req.userId
                     ELSE CHOOSE u \in getConnectedUserIds : TRUE
           result == sendMessage(userId, sendOk) IN
       IF req.integrationId = "whatsapp"
       THEN Response(req, 200,
                     result.success, result.error, userId, result.sock)
       ELSE Response(req, 400, FALSE, <<"Integration not supported">>, "", 0)

\* the response written by the handler; sentTo is the userId handed to
\* connectionManager.sendMessage ("" when it is not called)
HandleSend(req, sendOk) ==
  IF req.method # "POST"
  THEN Response(req, 405, FALSE, <<"Method not allowed">>, "", 0)
  ELSE IF ~req.parses
  THEN Response(req, 500, FALSE, <<"Internal error">>, "", 0)
  ELSE IF req.integrationId = "" \/ req.chatId = "" \/ req.text = ""
  THEN Response(req, 400, FALSE, <<"Missing required fields">>, "", 0)
  ELSE IF req.userId = "" /\ Cardinality(getConnectedUserIds) = 0
  THEN Response(req, 500, FALSE, <<"No WhatsApp connections available">>, "", 0)
  ELSE IF req.userId = "" /\ Cardinality(getConnectedUserIds) # 1
  THEN Response(req, 400, FALSE, <<"Multiple users connected, userId required">>, "", 0)
  ELSE LET userId == IF req.userId # "" THEN req.userId
                     ELSE CHOOSE u \in getConnectedUserIds : TRUE
           result == sendMessage(userId, sendOk) IN
       IF req.integrationId = "whatsapp"
       THEN Response(req, IF result.success THEN 200 ELSE 500,
                     result.success, result.error, userId, result.sock)
       ELSE Response(req, 400, FALSE, <<"Integration not supported">>, "", 0)

\* The handler from the parsed body to the response.  Reading the body comes
\* first and touches no state; lookup and sendMessage run without an await in
\* between, and the continuation after the send only writes the response.
HttpSend(req, sendOk) ==
  /\ lastOp' = HandleSend(req, sendOk)
  /\ UNCHANGED <<managerVars, msgVars, initVars, auxVars>>

\* ---------------------------------------------------- inbound messages
\* text.trim(): strip leading and trailing whitespace
RECURSIVE TrimLeft(_)
TrimLeft(t) == IF t # <<>> /\ Head(t) = " " THEN TrimLeft(Tail(t)) ELSE t

RECURSIVE Reverse(_)
Reverse(t) == IF t = <<>> THEN <<>> ELSE Reverse(Tail(t)) \o <<Head(t)>>

Trim(t) == Reverse(TrimLeft(Reverse(TrimLeft(t))))

\* Protocol messages by what handleIncomingMessage reads of them: the kind of
\* key.remoteJid ("none" when absent), key.fromMe, the extracted text, and
\* whether key.id is present.
Msg(kind, fromMe, text, hasId) ==
  [kind |-> kind, fromMe |-> fromMe, text |-> text, hasId |-> hasId]

MsgShapes ==
  { Msg("direct", FALSE, <<"h", "i">>, TRUE),
    Msg("direct", FALSE, <<"h", "i">>, FALSE),
    Msg("group", FALSE, <<"h", "i">>, TRUE),
    Msg("status", FALSE, <<"h", "i">>, TRUE),
    Msg("direct", TRUE, <<"h", "i">>, TRUE),
    Msg("direct", FALSE, <<" ">>, TRUE) }

\* messages that handleIncomingMessage returns on early: no remoteJid, a
\* status or broadcast conversation, sent by self, no message content or an
\* empty text (<<>>), a text of whitespace
DroppedShapes ==
  { Msg("none", FALSE, <<"h", "i">>, TRUE),
    Msg("status", FALSE, <<"h", "i">>, TRUE),
    Msg("broadcast", FALSE, <<"h", "i">>, TRUE),
    Msg("direct", TRUE, <<"h", "i">>, TRUE),
    Msg("group", TRUE, <<"h", "i">>, TRUE),
    Msg("direct", FALSE, <<>>, TRUE),
    Msg("group", FALSE, <<" ", " ">>, TRUE) }

\* messages that are normalized
KeptShapes ==
  { Msg("direct", FALSE, <<"h", "i">>, TRUE),
    Msg("direct", FALSE, <<" ", "h">>, FALSE),
    Msg("group", FALSE, <<"h", " ">>, TRUE) }

\* batches that mix the two
InboundBatches ==
  {<<m>> : m \in DroppedShapes \cup KeptShapes}
    \cup {<<m, n>> : m \in DroppedShapes, n \in KeptShapes}
    \cup {<<n, m>> : m \in DroppedShapes \cup KeptShapes, n \in KeptShapes}

\* the batches of one messages.upsert event
Batches == {<<m>> : m \in MsgShapes} \cup {<<m, n>> : m, n \in MsgShapes}

\* early returns that let a text of whitespace through
Normalizes_keepsBlank(m) ==
  /\ m.kind # "none"
  /\ m.kind \notin {"status", "broadcast"}
  /\ ~m.fromMe
  /\ m.text # <<>>

\* the early returns of handleIncomingMessage (273-295)
Normalizes(m) ==
  /\ m.kind # "none"
  /\ m.kind \notin {"status", "broadcast"}
  /\ ~m.fromMe
  /\ Trim(m.text) # <<>>

Suspended(s, msgs, stage) ==
  [h |-> {[sock |-> s, msgs |-> msgs, stage |-> stage]}, out |-> <<>>]

\* The upsert handler's loop from the start of handleIncomingMessage for
\* Head(msgs) up to its next await on the network or on the callback: the
\* handler it leaves suspended (none when the loop has ended) and the callback
\* invocation it made on the way.  A message that is returned early costs no
\* suspension.
RECURSIVE StartMessage(_, _)
StartMessage(s, msgs) ==
  IF msgs = <<>> THEN [h |-> {}, out |-> <<>>]
  ELSE IF ~Normalizes(Head(msgs)) THEN StartMessage(s, Tail(msgs))
  ELSE IF Head(msgs).kind = "group" THEN Suspended(s, msgs, "groupMetadata")
  ELSE IF Head(msgs).hasId THEN Suspended(s, msgs, "readMessages")
  ELSE IF onMessageCallback
  THEN [h |-> {[sock |-> s, msgs |-> msgs, stage |-> "callback"]},
        out |-> <<[userId |-> conns[socks[s].owner].userId, sock |-> s,
                   id |-> Head(msgs).id]>>]
  ELSE StartMessage(s, Tail(msgs))

\* how an awaited promise settles
Settlements == {"resolved", "rejected"}

\* a handler that a rejected callback promise ends
Continue_callbackErrorEndsLoop(h, settled) ==
  LET s == h.sock
      msgs == h.msgs IN
  IF h.stage = "groupMetadata" /\ Head(msgs).hasId
  THEN Suspended(s, msgs, "readMessages")
  ELSE IF h.stage \in {"groupMetadata", "readMessages"}
  THEN IF onMessageCallback
       THEN [h |-> {[sock |-> s, msgs |-> msgs, stage |-> "callback"]},
             out |-> <<[userId |-> conns[socks[s].owner].userId, sock |-> s,
                        id |-> Head(msgs).id]>>]
       ELSE StartMessage(s, Tail(msgs))
  ELSE IF settled = "rejected" THEN [h |-> {}, out |-> <<>>]
  ELSE StartMessage(s, Tail(msgs))

\* The continuation of a suspended handler when its awaited call settles.
\* Every await on the path sits in a try whose catch goes on: groupMetadata
\* (311-316), readMessages (344-355) and the callback (360-367), so a
\* rejection continues like a resolution.
Continue(h, settled) ==
  LET s == h.sock
      msgs == h.msgs IN
  IF h.stage = "groupMetadata" /\ Head(msgs).hasId
  THEN Suspended(s, msgs, "readMessages")
  ELSE IF h.stage \in {"groupMetadata", "readMessages"}
  THEN IF onMessageCallback
       THEN [h |-> {[sock |-> s, msgs |-> msgs, stage |-> "callback"]},
             out |-> <<[userId |-> conns[socks[s].owner].userId, sock |-> s,
                        id |-> Head(msgs).id]>>]
       ELSE StartMessage(s, Tail(msgs))
  ELSE StartMessage(s, Tail(msgs))

\* the batch with the emission numbers of its messages
Numbered(batch) ==
  [i \in 1..Len(batch) |->
     [kind |-> batch[i].kind, fromMe |-> batch[i].fromMe, text |-> batch[i].text,
      hasId |-> batch[i].hasId, id |-> emitted + i]]

setOnMessage ==
  /\ onMessageCallback' = TRUE
  /\ UNCHANGED <<managerVars, lastOp, upserts, emitted, delivered, initVars, auxVars>>

\* an open socket emits messages.upsert; the handler runs up to its first await
MessagesUpsert(s, type, batch) ==
  /\ s \in 1..Len(socks)
  /\ socks[s].state = "open"
  /\ emitted + Len(batch) <= MaxMsgs
  /\ emitted' = emitted + Len(batch)
  /\ LET r == IF type # "notify" THEN [h |-> {}, out |-> <<>>]
              ELSE StartMessage(s, Numbered(batch)) IN
     /\ upserts' = upserts \cup r.h
     /\ delivered' = delivered \o r.out
  /\ UNCHANGED <<managerVars, onMessageCallback, initVars, auxVars>>

\* an awaited call of a suspended handler settles and the handler goes on
HandlerResume(h, settled) ==
  /\ h \in upserts
  /\ LET r == Continue(h, settled) IN
     /\ upserts' = (upserts \ {h}) \cup r.h
     /\ delivered' = delivered \o r.out
  /\ UNCHANGED <<managerVars, onMessageCallback, emitted, initVars, auxVars>>

\* ----------------------------------------------------------- initialize
\* absent (null) credentials of an integration
NoCreds == [name |-> "none", me |-> <<>>]

Integration(userId, integrationId, credentials) ==
  [userId |-> userId, integrationId |-> integrationId, credentials |-> credentials]

\* What fetchIntegrations returns: the integrations array of the response, or
\* [] when no API URL is set, the request fails or the status is not ok.
Listings ==
  { <<>>,
    <<Integration("u1", "whatsapp", CredsB)>>,
    <<Integration("u1", "whatsapp", CredsB), Integration("u2", "whatsapp", CredsB)>>,
    <<Integration("u1", "telegram", CredsB), Integration("u2", "whatsapp", CredsB)>>,
    <<Integration("u2", "whatsapp", NoCreds), Integration("u1", "whatsapp", CredsB)>>,
    <<Integration("u1", "whatsapp", CredsB), Integration("u1", "whatsapp", CredsB)>> }

\* the length of the longest listing
ListingLen == 2

\* integrations.filter(i => i.integrationId === "whatsapp" && i.credentials)
whatsappIntegrations(integrations) ==
  SelectSeq(integrations,
            LAMBDA i : i.integrationId = "whatsapp" /\ i.credentials # NoCreds)

AlreadyInitialized_never == FALSE

AlreadyInitialized == isInitialized

\* an initialize() invocation suspended in fetchIntegrations
Fetching ==
  [stage |-> "fetch", fetched |-> <<>>, todo |-> <<>>, pos |-> 0, waiting |-> 0,
   attempted |-> <<>>, failed |-> {}]

\* initialize(): the flag check and the call of fetchIntegrations
InitializeCall ==
  /\ IF AlreadyInitialized
     THEN /\ lastOp' = [op |-> "initialize", started |-> FALSE]
          /\ UNCHANGED inits
     ELSE /\ Len(inits) < MaxInits
          /\ inits' = Append(inits, Fetching)
          /\ lastOp' = [op |-> "initialize", started |-> TRUE]
  /\ UNCHANGED <<managerVars, msgVars, isInitialized, auxVars>>

\* a loop that gives up at the first connectUser that throws
RECURSIVE Advance_stopsAtFailure(_, _, _, _, _)
Advance_stopsAtFailure(todo, k, attempted, failed, throws) ==
  IF k > Len(todo)
  THEN [done |-> TRUE, k |-> k, attempted |-> attempted, failed |-> failed]
  ELSE IF AlreadyConnected(todo[k].userId)
  THEN Advance_stopsAtFailure(todo, k + 1, Append(attempted, todo[k].userId), failed, throws)
  ELSE IF k \in throws
  THEN [done |-> TRUE, k |-> k, attempted |-> Append(attempted, todo[k].userId),
        failed |-> failed \cup {k}]
  ELSE [done |-> FALSE, k |-> k, attempted |-> Append(attempted, todo[k].userId),
        failed |-> failed]

\* The for loop of initialize from todo[k] on, up to the first connectUser
\* that suspends in createSocket: a connectUser that finds the user connected
\* returns at once, one whose writeCredentials throws (k \in throws) is caught
\* and logged, and the loop goes on in the same task.
RECURSIVE Advance(_, _, _, _, _)
Advance(todo, k, attempted, failed, throws) ==
  IF k > Len(todo)
  THEN [done |-> TRUE, k |-> k, attempted |-> attempted, failed |-> failed]
  ELSE IF AlreadyConnected(todo[k].userId)
  THEN Advance(todo, k + 1, Append(attempted, todo[k].userId), failed, throws)
  ELSE IF k \in throws
  THEN Advance(todo, k + 1, Append(attempted, todo[k].userId), failed \cup {k}, throws)
  ELSE [done |-> FALSE, k |-> k, attempted |-> Append(attempted, todo[k].userId),
        failed |-> failed]

\* seq without its i-th element
Remove(seq, i) == [j \in 1..(Len(seq) - 1) |-> IF j < i THEN seq[j] ELSE seq[j + 1]]

\* connectUser past its connected check, on the UserConnections cs and the
\* pending createSocket calls cr left by the stretch of code that ran before
\* it in the same task
ConnectUserFrom(cs, cr, userId, credentials, metaPhone) ==
  /\ Len(cs) < MaxConns
  /\ authFiles' = [authFiles EXCEPT ![userId] = credentials.name]
  /\ conns' = Append(cs, UserConnection(userId, extractPhone(credentials, metaPhone)))
  /\ connections' = [connections EXCEPT ![userId] = Len(cs) + 1]
  /\ creating' = Inc(cr, Len(cs) + 1)

\* Invocation i of initialize goes on after the loop has advanced to r: either
\* the loop has ended and the flag is set (404), or connectUser for todo[r.k]
\* has built its UserConnection and the invocation waits for its createSocket.
LoopStep(i, fetched, todo, r, cs, cr) ==
  IF r.done
  THEN /\ inits' = Remove(inits, i)
       /\ isInitialized' = TRUE
       /\ lastOp' = [op |-> "initialized", fetched |-> fetched,
                     attempted |-> r.attempted, failed |-> r.failed]
       /\ conns' = cs
       /\ creating' = cr
       /\ UNCHANGED <<connections, authFiles>>
  ELSE /\ ConnectUserFrom(cs, cr, todo[r.k].userId, todo[r.k].credentials, NoPhone)
       /\ inits' = [inits EXCEPT ![i] =
                      [stage |-> "connect", fetched |-> fetched, todo |-> todo,
                       pos |-> r.k, waiting |-> Len(cs) + 1,
                       attempted |-> r.attempted, failed |-> r.failed]]
       /\ lastOp' = Event
       /\ UNCHANGED isInitialized

\* fetchIntegrations settles with a listing: filter it and start the loop
InitializeFetched(i, listing, throws) ==
  /\ i \in 1..Len(inits)
  /\ inits[i].stage = "fetch"
  /\ LET todo == whatsappIntegrations(listing) IN
     LoopStep(i, listing, todo, Advance(todo, 1, <<>>, {}, throws), conns, creating)
  /\ UNCHANGED <<socks, timers, msgVars, auxVars>>

\* The createSocket awaited by invocation i settles: it has made the socket
\* and attached the handlers (ok), or it has thrown and the loop's catch logs
\* it; the loop goes on with the next integration.
InitializeResume(i, ok, throws) ==
  /\ i \in 1..Len(inits)
  /\ inits[i].stage = "connect"
  /\ LET inv == inits[i]
         c == inv.waiting
         cs == IF ok THEN [conns EXCEPT ![c].socket = Len(socks) + 1,
                                        ![c].status = "connecting"]
               ELSE conns
         failed == IF ok THEN inv.failed ELSE inv.failed \cup {inv.pos} IN
     /\ creating[c] > 0
     /\ ok => Len(socks) < MaxSocks
     /\ socks' = IF ok THEN Append(socks, [owner |-> c, state |-> "connecting"])
                 ELSE socks
     /\ LoopStep(i, inv.fetched, inv.todo,
                 Advance(inv.todo, inv.pos + 1, inv.attempted, failed, throws),
                 cs, Dec(creating, c))
  /\ UNCHANGED <<timers, msgVars, auxVars>>

\* ------------------------------------------------------------- shutdown
\* the sockets stored in the entries of the connection map
StoredSockets == {conns[connections[u]].socket : u \in {v \in Users : connections[v] # 0}} \ {0}

\* a shutdown that leaves the flag as it was
ShutdownFlag_kept == isInitialized

ShutdownFlag == FALSE

\* shutdown(): disconnectUser for every key of the map, then the flag.
\* disconnectUser has no await in its body, so the loop's awaits resume in
\* the microtask checkpoint of the calling task and the call is atomic.  The
\* users' UserConnections and sockets are distinct, so the order of the loop
\* does not show.  endOk[u] tells whether end() on u's socket returns or throws.
Shutdown(endOk) ==
  LET closing == {s \in StoredSockets :
                    endOk[conns[socks[s].owner].userId] /\ socks[s].state # "closed"}
      owners == {socks[s].owner : s \in closing} IN
  /\ socks' = [s \in 1..Len(socks) |->
                IF s \in closing THEN [socks[s] EXCEPT !.state = "closed"] ELSE socks[s]]
  /\ conns' = [c \in 1..Len(conns) |->
                IF c \in owners THEN OnClose(conns[c], undefinedCode) ELSE conns[c]]
  /\ timers' = [c \in ConnIds |->
                 IF c \in owners /\ Reconnects(conns[c], undefinedCode)
                 THEN timers[c] + 1 ELSE timers[c]]
  /\ connections' = [u \in Users |-> 0]
  /\ isInitialized' = ShutdownFlag
  /\ lastOp' = [op |-> "shutdown", endOk |-> endOk]
  /\ UNCHANGED <<creating, authFiles, inits, msgVars, auxVars>>

\* ----------------------------------------------------- writeCredentials
\* credential maps: what the integrations API sends for the two keys
CredentialMaps ==
  [creds : {Null, Json("object", "a", "false"), Json("object", "a", "true"),
            Json("object", "b", "missing"), Json("string", "x", "missing")},
   keys : {Null, Json("object", "k", "missing"), Json("object", "l", "missing")}]

\* fs.writeFileSync(filePath, JSON.stringify(value, null, 2)) followed by
\* JSON.parse(fs.readFileSync(...)): the text of a value parses back to it
Stringify(value) == Json(value.shape, value.body, value.registered)

\* the loop over Object.entries(credentials) (84-89)
WriteEntries(dir, credentials) ==
  [f \in FileNames |->
     IF credentials[f] # Null THEN Stringify(credentials[f]) ELSE dir[f]]

\* The registered patch (92-103) on the primary record.  Setting a property on
\* a parsed string throws in a module (strict mode) and is caught with the
\* parse errors, so only an object is rewritten.
EnsureRegistered(file) ==
  IF file.shape = "object" /\ file.registered # "true"
  THEN Json(file.shape, file.body, "true")
  ELSE file

\* a writeCredentials that patches the primary record only when the call created it
writeCredentials_patchesNewFileOnly(dir, credentials) ==
  LET written == WriteEntries(dir, credentials) IN
  [written EXCEPT !["creds"] =
     IF dir["creds"] = Absent THEN EnsureRegistered(@) ELSE @]

\* the directory after writeCredentials(userId, credentials)
writeCredentials(dir, credentials) ==
  LET written == WriteEntries(dir, credentials) IN
  [written EXCEPT !["creds"] = EnsureRegistered(@)]

WriteCredentials(credentials) ==
  /\ credDir' = writeCredentials(credDir, credentials)
  /\ lastOp' = [op |-> "writeCredentials", credentials |-> credentials,
                before |-> credDir]
  /\ UNCHANGED <<managerVars, msgVars, initVars, keyOrder, bridgeConfig, netCalls>>

\* saveCreds (252): the library rewrites the primary record from the state
\* it loaded from the directory, with new key material and the same
\* registered field
SaveCreds(body) ==
  /\ credDir["creds"].shape = "object"
  /\ credDir' = [credDir EXCEPT !["creds"] = Json("object", body, @.registered)]
  /\ lastOp' = Event
  /\ UNCHANGED <<managerVars, msgVars, initVars, keyOrder, bridgeConfig, netCalls>>

\* ---------------------------------------------------- getUserIdByPhone
Digits == {"0", "1", "2", "3", "4", "5", "6", "7", "8", "9"}

\* phone.replace(/\D/g, "")
StripNonDigits(phone) == SelectSeq(phone, LAMBDA ch : ch \in Digits)

\* s.endsWith(suffix)
EndsWith(s, suffix) ==
  /\ Len(suffix) <= Len(s)
  /\ SubSeq(s, Len(s) - Len(suffix) + 1, Len(s)) = suffix

\* Map.set and Map.delete on the order of the keys: a new key goes last, a
\* key that is present keeps its place
KeysAfterSet(userId) ==
  IF \E k \in 1..Len(keyOrder) : keyOrder[k] = userId THEN keyOrder
  ELSE Append(keyOrder, userId)

KeysAfterDelete(userId) == SelectSeq(keyOrder, LAMBDA u : u # userId)

\* the loop of getUserIdByPhone over the entries from keys[k] on; "none" is
\* undefined.  The stored phone is compared as it is stored.
RECURSIVE FirstMatch(_, _, _)
FirstMatch(keys, k, normalized) ==
  IF k > Len(keys) THEN "none"
  ELSE LET conn == conns[connections[keys[k]]] IN
       IF conn.phone # NoPhone /\ EndsWith(conn.phone, normalized) THEN keys[k]
       ELSE IF conn.phone # NoPhone /\ EndsWith(normalized, conn.phone) THEN keys[k]
       ELSE FirstMatch(keys, k + 1, normalized)

getUserIdByPhone(phone) == FirstMatch(keyOrder, 1, StripNonDigits(phone))

\* phones handed to connectUser in metadata.phone, plain and formatted
StoredPhones == {NoPhone, <<"1", "5">>, <<"5">>, <<"+", "1", "-", "5">>}

\* phones looked up
PhoneInputs ==
  {<<"1", "5">>, <<"5">>, <<"+", "1", "5">>, <<"1", "-", "5">>, <<"7">>,
   <<"2", "1", "5">>}

GetUserIdByPhone(phone) ==
  /\ lastOp' = [op |-> "getUserIdByPhone", phone |-> phone,
                result |-> getUserIdByPhone(phone)]
  /\ UNCHANGED <<managerVars, msgVars, initVars, auxVars>>

\* ------------------------------------------------- forwardToRaccoonAI
\* bridge configurations: enabled is "true", "false" or "unset" (the
\* module starts with {}), webhookUrl is "" when not configured
BridgeConfigs ==
  [enabled : {"true", "false", "unset"}, webhookUrl : {"", "https://hook"}]

setBridgeConfig(config) ==
  /\ bridgeConfig' = config
  /\ lastOp' = Event
  /\ UNCHANGED <<managerVars, msgVars, initVars, keyOrder, credDir, netCalls>>

\* the payloads built from inbound messages, by their userId
Payloads == {[userId |-> u, text |-> <<"h", "i">>] : u \in Users}

\* What happens to one fetch of the webhook: it rejects (with an Error or with
\* another value), or it resolves with a response: its ok flag and status,
\* whether text() can read the body, whether json() parses it, and the
\* success and sessionUrl fields of the parsed acknowledgement.
Outcome(kind, isError, status, readable, parses, success, sessionUrl) ==
  [kind |-> kind, isError |-> isError, status |-> status, readable |-> readable,
   parses |-> parses, success |-> success, sessionUrl |-> sessionUrl]

WebhookOutcomes ==
  { Outcome("reject", TRUE, 0, FALSE, FALSE, "absent", ""),
    Outcome("reject", FALSE, 0, FALSE, FALSE, "absent", ""),
    Outcome("response", FALSE, 500, TRUE, FALSE, "absent", ""),
    Outcome("response", FALSE, 500, FALSE, FALSE, "absent", ""),
    Outcome("response", FALSE, 200, TRUE, FALSE, "absent", ""),
    Outcome("response", FALSE, 200, TRUE, TRUE, "absent", "https://s"),
    Outcome("response", FALSE, 200, TRUE, TRUE, "true", ""),
    Outcome("response", FALSE, 200, TRUE, TRUE, "false", "") }

\* response.ok
Ok(outcome) == outcome.status \in 200..299

Forwarded(success, error, sessionUrl, posted) ==
  [success |-> success, error |-> error, sessionUrl |-> sessionUrl, posted |-> posted]

\* a forwarder that posts once more after a response that is not ok
forwardToRaccoonAI_retries(config, payload, outcome) ==
  IF config.enabled # "true"
  THEN Forwarded(FALSE, <<"Bridge is disabled">>, "", <<>>)
  ELSE IF config.webhookUrl = ""
  THEN Forwarded(FALSE, <<"No webhook URL configured">>, "", <<>>)
  ELSE IF outcome.kind = "reject"
  THEN Forwarded(FALSE, <<"Failed to forward message">>, "", <<payload>>)
  ELSE IF ~Ok(outcome)
  THEN Forwarded(FALSE, <<"HTTP ", outcome.status>>, "", <<payload, payload>>)
  ELSE IF ~outcome.parses
  THEN Forwarded(FALSE, <<"Unexpected token">>, "", <<payload>>)
  ELSE Forwarded(outcome.success # "false", <<>>, outcome.sessionUrl, <<payload>>)

\* The value forwardToRaccoonAI resolves with, and the bodies it has posted
\* to config.webhookUrl on the way.  Every statement after the two
\* configuration checks sits in the try, whose catch returns the failure.
\* sessionId is copied from the acknowledgement like sessionUrl.
forwardToRaccoonAI(config, payload, outcome) ==
  IF config.enabled # "true"
  THEN Forwarded(FALSE, <<"Bridge is disabled">>, "", <<>>)
  ELSE IF config.webhookUrl = ""
  THEN Forwarded(FALSE, <<"No webhook URL configured">>, "", <<>>)
  ELSE IF outcome.kind = "reject"
  THEN Forwarded(FALSE,
                 IF outcome.isError THEN <<"fetch failed">>
                 ELSE <<"Failed to forward message">>,
                 "", <<payload>>)
  ELSE IF ~Ok(outcome)
  THEN Forwarded(FALSE,
                 <<"HTTP ", outcome.status, ": ",
                   IF outcome.readable THEN "oops" ELSE "Unknown error">>,
                 "", <<payload>>)
  ELSE IF ~outcome.parses
  THEN Forwarded(FALSE, <<"Unexpected token">>, "", <<payload>>)
  ELSE Forwarded(outcome.success # "false", <<>>, outcome.sessionUrl, <<payload>>)

\* one call of forwardToRaccoonAI, from the read of the configuration to the
\* value returned; the function reads the configuration once, before its await
ForwardToRaccoonAI(payload, outcome) ==
  LET r == forwardToRaccoonAI(bridgeConfig, payload, outcome) IN
  /\ netCalls + Len(r.posted) <= MaxForwards
  /\ netCalls' = netCalls + Len(r.posted)
  /\ lastOp' = [op |-> "forward", payload |-> payload, outcome |-> outcome,
                result |-> r]
  /\ UNCHANGED <<managerVars, msgVars, initVars, keyOrder, credDir, bridgeConfig>>

\* ------------------------------------------------------ specifications
\* a step of the session lifecycle: it records nothing and delivers nothing
Quiet == UNCHANGED <<lastOp, msgVars, initVars, auxVars>>

\* The session lifecycle: connects, socket events, reconnect timers, disconnects.
Next ==
  \/ \E u \in SessionUsers : ConnectUser(u, CredsB, NoPhone) /\ Quiet
  \/ \E c \in ConnIds : CreateSocketResume(c) /\ Quiet
  \/ \E s \in 1..MaxSocks, id \in SockUserIds : SocketOpen(s, id) /\ Quiet
  \/ \E s \in 1..MaxSocks, code \in CloseCodes : SocketClose(s, code) /\ Quiet
  \/ \E c \in ConnIds : ReconnectTimerFire(c) /\ Quiet
  \/ \E u \in SessionUsers, endOk \in BOOLEAN : DisconnectUser(u, endOk) /\ Quiet

Spec == Init /\ [][Next]_vars

\* Steps of the specifications below record themselves in lastOp, socket
\* events, timers and calls without a result as "event".
Logged == lastOp' = Event /\ UNCHANGED <<msgVars, initVars, auxVars>>

\* close codes of these specifications: one that ends in error, one in disconnected
ApiCloseCodes == {loggedOut, connectionClosed}

\* connectUser calls with differing credentials and metadata on one user's sessions.
NextConnect ==
  \/ \E u \in SessionUsers, cr \in Credentials, mp \in MetaPhones :
       /\ ConnectUser(u, cr, mp)
       /\ lastOp' = [op |-> "connectUser", userId |-> u, credentials |-> cr.name,
                     metaPhone |-> mp]
       /\ UNCHANGED <<msgVars, initVars, auxVars>>
  \/ \E c \in ConnIds : CreateSocketResume(c) /\ Logged
  \/ \E s \in 1..MaxSocks, id \in SockUserIds : SocketOpen(s, id) /\ Logged
  \/ \E s \in 1..MaxSocks, code \in ApiCloseCodes : SocketClose(s, code) /\ Logged
  \/ \E u \in SessionUsers : DisconnectUser(u, TRUE) /\ Logged

SpecConnect == Init /\ [][NextConnect]_vars

\* sendMessage and the HTTP endpoint over the sessions of two users.
NextApi ==
  \/ \E u \in Users : ConnectUser(u, CredsB, NoPhone) /\ Logged
  \/ \E c \in ConnIds : CreateSocketResume(c) /\ Logged
  \/ \E s \in 1..MaxSocks, id \in SockUserIds : SocketOpen(s, id) /\ Logged
  \/ \E s \in 1..MaxSocks : SocketClose(s, connectionClosed) /\ Logged
  \/ \E u \in Users : DisconnectUser(u, TRUE) /\ Logged
  \/ \E u \in UserIdArgs, sendOk \in BOOLEAN : SendMessage(u, sendOk)
  \/ \E req \in HttpRequests, sendOk \in BOOLEAN : HttpSend(req, sendOk)

SpecApi == Init /\ [][NextApi]_vars

\* every end() returns
EndsOk == [u \in Users |-> TRUE]

\* initialize over the sessions of two users, with connects that throw.
NextInit ==
  \/ InitializeCall
  \/ \E i \in 1..MaxInits, listing \in Listings, throws \in SUBSET (1..ListingLen) :
       InitializeFetched(i, listing, throws)
  \/ \E i \in 1..MaxInits, ok \in BOOLEAN, throws \in SUBSET (1..ListingLen) :
       InitializeResume(i, ok, throws)
  \/ \E s \in 1..MaxSocks, id \in SockUserIds : SocketOpen(s, id) /\ Logged
  \/ Shutdown(EndsOk)

SpecInit == Init /\ [][NextInit]_vars

\* the listings of the shutdown specification
ShutdownListings ==
  {l \in Listings : \A k \in 1..Len(l) :
     l[k].integrationId = "whatsapp" /\ l[k].credentials # NoCreds}

\* shutdown and disconnectUser over sessions that initialize has started.
NextShutdown ==
  \/ InitializeCall
  \/ \E i \in 1..MaxInits, listing \in ShutdownListings : InitializeFetched(i, listing, {})
  \/ \E i \in 1..MaxInits : InitializeResume(i, TRUE, {})
  \/ \E s \in 1..MaxSocks, id \in SockUserIds : SocketOpen(s, id) /\ Logged
  \/ \E s \in 1..MaxSocks : SocketClose(s, connectionClosed) /\ Logged
  \/ \E endOk \in [Users -> BOOLEAN] : Shutdown(endOk)
  \/ \E u \in Users, endOk \in BOOLEAN :
       /\ DisconnectUser(u, endOk)
       /\ lastOp' = [op |-> "disconnectUser", userId |-> u, endOk |-> endOk]
       /\ UNCHANGED <<msgVars, initVars, auxVars>>

SpecShutdown == Init /\ [][NextShutdown]_vars

\* One user's credential directory under writes of every credential map.
NextCreds ==
  \/ \E credentials \in CredentialMaps : WriteCredentials(credentials)
  \/ \E body \in {"s"} : SaveCreds(body)

SpecCreds == Init /\ [][NextCreds]_vars

\* Lookups by phone over the sessions of two users; this specification keeps
\* the order of the map's keys.
NextPhone ==
  \/ \E u \in Users, mp \in StoredPhones :
       /\ ConnectUser(u, CredsB, mp)
       /\ keyOrder' = KeysAfterSet(u)
       /\ lastOp' = Event
       /\ UNCHANGED <<msgVars, initVars, credDir, bridgeConfig, netCalls>>
  \/ \E c \in ConnIds :
       /\ CreateSocketResume(c)
       /\ lastOp' = Event
       /\ UNCHANGED <<msgVars, initVars, auxVars>>
  \/ \E s \in 1..MaxSocks, id \in SockUserIds :
       /\ SocketOpen(s, id)
       /\ lastOp' = Event
       /\ UNCHANGED <<msgVars, initVars, auxVars>>
  \/ \E u \in Users :
       /\ DisconnectUser(u, TRUE)
       /\ keyOrder' = KeysAfterDelete(u)
       /\ lastOp' = Event
       /\ UNCHANGED <<msgVars, initVars, credDir, bridgeConfig, netCalls>>
  \/ \E phone \in PhoneInputs : GetUserIdByPhone(phone)

SpecPhone == Init /\ [][NextPhone]_vars

\* The forwarder under every configuration and every fate of its request.
NextForward ==
  \/ \E config \in BridgeConfigs : setBridgeConfig(config)
  \/ \E payload \in Payloads, outcome \in WebhookOutcomes :
       ForwardToRaccoonAI(payload, outcome)

SpecForward == Init /\ [][NextForward]_vars


\* Inbound messages on the sockets of one user's sessions.
NextMsg ==
  \/ setOnMessage
  \/ \E u \in SessionUsers : ConnectUser(u, CredsB, NoPhone) /\ Quiet
  \/ \E c \in ConnIds : CreateSocketResume(c) /\ Quiet
  \/ \E s \in 1..MaxSocks, id \in SockUserIds : SocketOpen(s, id) /\ Quiet
  \/ \E s \in 1..MaxSocks, type \in {"notify", "append"}, batch \in Batches :
       MessagesUpsert(s, type, batch) /\ UNCHANGED lastOp
  \/ \E h \in upserts, settled \in Settlements :
       HandlerResume(h, settled) /\ UNCHANGED lastOp

SpecMsg == Init /\ [][NextMsg]_vars

\* Inbound messages of every shape on the socket of one session, with a
\* callback whose promise may reject.
NextInbound ==
  \/ setOnMessage
  \/ \E u \in SessionUsers :
       connections[u] = 0 /\ ConnectUser(u, CredsB, NoPhone)
         /\ lastOp' = Event /\ UNCHANGED <<msgVars, initVars, auxVars>>
  \/ \E c \in ConnIds :
       CreateSocketResume(c) /\ lastOp' = Event /\ UNCHANGED <<msgVars, initVars, auxVars>>
  \/ \E s \in 1..MaxSocks, id \in SockUserIds :
       SocketOpen(s, id) /\ lastOp' = Event /\ UNCHANGED <<msgVars, initVars, auxVars>>
  \/ \E s \in 1..MaxSocks, batch \in InboundBatches :
       MessagesUpsert(s, "notify", batch) /\ lastOp' = Event
  \/ \E h \in upserts, settled \in Settlements :
       /\ HandlerResume(h, settled)
       /\ lastOp' = [op |-> "resume", h |-> h, settled |-> settled]

SpecInbound == Init /\ [][NextInbound]_vars

\* One session of either user under failing connections.  A handshake resets the attempt
\* count, so one is taken only while the sockets that may follow it
\* (MaxReconnectAttempts of them) still fit under MaxSocks: makeWASocket is
\* then never refused for lack of sockets.
NextRetry ==
  \/ \E u \in Users :
       Len(conns) = 0 /\ ConnectUser(u, CredsB, NoPhone) /\ Quiet
  \/ \E c \in ConnIds : CreateSocketResume(c) /\ Quiet
  \/ \E s \in 1..MaxSocks, id \in SockUserIds :
       s + MaxReconnectAttempts <= MaxSocks /\ SocketOpen(s, id) /\ Quiet
  \/ \E s \in 1..MaxSocks, code \in CloseCodes : SocketClose(s, code) /\ Quiet
  \/ \E c \in ConnIds : ReconnectTimerFire(c) /\ Quiet
  \/ \E u \in Users, endOk \in BOOLEAN : DisconnectUser(u, endOk) /\ Quiet

\* a socket that has not completed its handshake fails: the library gives up
\* on a connection attempt after its connect timeout and emits close
HandshakeFails ==
  \E s \in 1..MaxSocks, code \in CloseCodes :
    /\ s <= Len(socks)
    /\ socks[s].state = "connecting"
    /\ SocketClose(s, code) /\ Quiet

\* Every reconnect timer fires, the awaits of createSocket settle, and a
\* connection attempt that does not succeed ends.
SpecRetry ==
  /\ Init /\ [][NextRetry]_vars
  /\ WF_vars(\E c \in ConnIds : ReconnectTimerFire(c) /\ Quiet)
  /\ WF_vars(\E c \in ConnIds : CreateSocketResume(c) /\ Quiet)
  /\ WF_vars(HandshakeFails)

\* ------------------------------------------------------------ properties
ConnOf(s) == socks[s].owner

\* sockets made for UserConnection c before its current one
EarlierSocks(c) == {s \in 1..Len(socks) : socks[s].owner = c /\ s < conns[c].socket}

\* C1: reconnectAttempts of every UserConnection stays in 0..3, and a close
\* event with a reconnect-qualifying code (restartRequired, 515,
\* connectionReplaced) that arrives while reconnectAttempts is 3 schedules no
\* reconnect timer and leaves the status disconnected.
C1_ReconnectAttemptsBounded ==
  [][ /\ \A c \in 1..Len(conns') : conns'[c].reconnectAttempts \in 0..3
      /\ \A s \in 1..Len(socks) : \A code \in {restartRequired, 515, connectionReplaced} :
           ( /\ conns[ConnOf(s)].reconnectAttempts = 3
             /\ socks[s].state # "closed" /\ socks'[s].state = "closed"
             /\ SocketClose(s, code) )
             => /\ timers' = timers
                /\ conns'[ConnOf(s)].status = "disconnected" ]_vars

C1_Witness ==
  \E c \in 1..Len(conns) :
    /\ conns[c].reconnectAttempts = 3
    /\ conns[c].status = "disconnected"
    /\ conns[c].error \in {DisconnectError(515), DisconnectError(440)}
    /\ timers[c] = 0

\* C2: a reconnect timer that fires after disconnectUser has removed its user
\* from the connection map is a no-op: it starts no socket creation and changes
\* no state of the UserConnection.
C2_StaleTimerIsNoOp ==
  [][ \A c \in 1..Len(conns) :
        (timers[c] > 0 /\ connections[conns[c].userId] = 0 /\ timers'[c] < timers[c])
          => /\ creating' = creating
             /\ conns' = conns
             /\ socks' = socks ]_vars

\* C3: once a close event with the logged-out code has set a UserConnection to
\* status error with error logged_out, nothing but connectUser (which builds a
\* new UserConnection) touches the session again: the object never changes, no
\* reconnect timer is or gets pending for it, and no socket is created for it.
C3_LoggedOutIsTerminal ==
  [][ \A c \in 1..Len(conns) :
        (conns[c].status = "error" /\ conns[c].error = LoggedOutError)
          => /\ conns'[c] = conns[c]
             /\ timers[c] = 0 /\ timers'[c] = 0
             /\ creating[c] = 0 /\ creating'[c] = 0
             /\ \A s \in 1..Len(socks') : s > Len(socks) => socks'[s].owner # c
             /\ \A s \in 1..Len(socks) : socks[s].owner = c => socks'[s] = socks[s] ]_vars

C3_Witness ==
  \E c \in 1..Len(conns) :
    /\ conns[c].status = "error"
    /\ conns[c].error = LoggedOutError
    /\ conns[c].reconnectAttempts > 0
    /\ connections[conns[c].userId] # c

\* C4: every open event leaves the socket's UserConnection with status
\* connected, reconnectAttempts 0 and no error.
C4_OpenResetsSession ==
  [][ \A s \in 1..Len(socks) :
        (socks[s].state # "open" /\ socks'[s].state = "open")
          => /\ conns'[ConnOf(s)].status = "connected"
             /\ conns'[ConnOf(s)].reconnectAttempts = 0
             /\ conns'[ConnOf(s)].error = NoError ]_vars

\* an open event on a reconnect socket: the session had counted attempts
C4_Witness ==
  \E c \in 1..Len(conns) :
    /\ conns[c].status = "connected"
    /\ conns[c].reconnectAttempts = 0
    /\ Cardinality(EarlierSocks(c)) >= 2

\* C5: a UserConnection with status connected has a socket, and the socket it
\* stores is open: it has emitted open and has not emitted close.
C5_ConnectedHasOpenSocket ==
  \A c \in 1..Len(conns) :
    conns[c].status = "connected"
      => /\ conns[c].socket # 0
         /\ socks[conns[c].socket].state = "open"

\* connected again on a replacement socket, the earlier one closed
C5_Witness ==
  \E c \in 1..Len(conns) :
    /\ conns[c].status = "connected"
    /\ \E s \in EarlierSocks(c) : socks[s].state = "closed"

\* users whose map entry has status connected
ConnectedNow ==
  {u \in Users : connections[u] # 0 /\ conns[connections[u]].status = "connected"}

\* C7: sendMessage returns a failure and calls no socket's send when no
\* UserConnection exists for the user (error "User not connected"), when its
\* socket is null or when its status is not connected; the socket's send is
\* called only on the stored socket of a connected UserConnection.
C7_SendMessageGuards ==
  [][ lastOp'.op = "sendMessage"
          => LET u == lastOp'.userId
                 c == IF u \in Users THEN connections[u] ELSE 0
                 r == lastOp'.result IN
             /\ c = 0 => (~r.success /\ r.error = <<"User not connected">> /\ r.sock = 0)
             /\ (c # 0 /\ conns[c].socket = 0)
                  => (~r.success /\ r.error # <<>> /\ r.sock = 0)
             /\ (c # 0 /\ conns[c].status # "connected")
                  => (~r.success /\ r.error # <<>> /\ r.sock = 0)
             /\ r.sock # 0
                  => (c # 0 /\ conns[c].socket = r.sock /\ conns[c].status = "connected") ]_vars

\* a send refused for a session that has a socket but is disconnected
C7_Witness ==
  /\ lastOp.op = "sendMessage"
  /\ lastOp.userId \in Users
  /\ connections[lastOp.userId] # 0
  /\ conns[connections[lastOp.userId]].socket # 0
  /\ conns[connections[lastOp.userId]].status = "disconnected"
  /\ lastOp.result.success = FALSE
  /\ lastOp.result.sock = 0

\* C8: connectUser for a user whose map entry has status connected writes no
\* credentials, creates no UserConnection and no socket, and leaves the
\* connection map and every UserConnection unchanged.
C8_ConnectUserNoOpWhenConnected ==
  [][ ( /\ lastOp'.op = "connectUser"
        /\ connections[lastOp'.userId] # 0
        /\ conns[connections[lastOp'.userId]].status = "connected" )
        => /\ authFiles' = authFiles
           /\ connections' = connections
           /\ conns' = conns
           /\ socks' = socks
           /\ creating' = creating
           /\ timers' = timers ]_vars

\* a call with other credentials and another phone on a connected user
C8_Witness ==
  /\ lastOp.op = "connectUser"
  /\ connections[lastOp.userId] # 0
  /\ conns[connections[lastOp.userId]].status = "connected"
  /\ authFiles[lastOp.userId] # lastOp.credentials
  /\ lastOp.metaPhone # NoPhone
  /\ conns[connections[lastOp.userId]].phone # lastOp.metaPhone

\* requests that pass validation and name no user
NoUserIdRequests ==
  {req \in HttpRequests :
     /\ req.method = "POST" /\ req.parses
     /\ req.integrationId # "" /\ req.chatId # "" /\ req.text # ""
     /\ req.userId = ""}

\* C9: a request with integrationId, chatId and text and no userId is routed
\* by the set of connected users read in the same step as the send: with
\* exactly one connected user no other user is sent to, and a whatsapp request
\* is sent on that user's open socket; with none the answer is 500 and with
\* more than one 400, both without a send.
C9_RoutesToTheOnlyConnectedUser ==
  [][ (lastOp'.op = "http" /\ lastOp'.req \in NoUserIdRequests)
          => LET r == lastOp'
                 req == lastOp'.req IN
             /\ Cardinality(ConnectedNow) = 1
                  => /\ r.sentTo \in ConnectedNow \cup {""}
                     /\ req.integrationId = "whatsapp"
                          => /\ r.sentTo \in ConnectedNow
                             /\ r.sock # 0
                             /\ r.sock = conns[connections[r.sentTo]].socket
                             /\ socks[r.sock].state = "open"
             /\ Cardinality(ConnectedNow) = 0
                  => (r.status = 500 /\ r.sentTo = "" /\ r.sock = 0)
             /\ Cardinality(ConnectedNow) > 1
                  => (r.status = 400 /\ r.sentTo = "" /\ r.sock = 0) ]_vars

\* routed to u2, the only connected user, while u1 has a session that is not connected
C9_Witness ==
  /\ lastOp.op = "http"
  /\ lastOp.req \in NoUserIdRequests
  /\ lastOp.status = 200
  /\ lastOp.sentTo = "u2"
  /\ ConnectedNow = {"u2"}
  /\ connections["u1"] # 0

\* C10 as stated: every request that reaches a send attempt is answered with 200.
C10_SendAttemptAlways200 ==
  [][ (lastOp'.op = "http" /\ lastOp'.sentTo # "") => lastOp'.status = 200 ]_vars

\* C10 amended: a request that reaches a send attempt is answered with 200
\* when the send succeeded and with 500 when it failed, and the success field
\* of the body is the outcome of the send.
C10_StatusFollowsSendOutcome ==
  [][ (lastOp'.op = "http" /\ lastOp'.sentTo # "")
        => LET r == lastOp'
               u == lastOp'.sentTo
               live == u \in ConnectedNow /\ conns[connections[u]].socket # 0 IN
           /\ r.status = IF r.success THEN 200 ELSE 500
           /\ r.success => (live /\ r.sock = conns[connections[u]].socket)
           /\ ~live => (~r.success /\ r.sock = 0)
           /\ r.success = (r.error = <<>>) ]_vars

\* a send that reached the socket and failed
C10_Witness ==
  /\ lastOp.op = "http"
  /\ lastOp.sentTo # ""
  /\ lastOp.sock # 0
  /\ lastOp.success = FALSE
  /\ lastOp.status = 500

\* C11: every POST request that has integrationId, chatId and text and whose
\* integrationId is not "whatsapp" is answered with 400, whether or not it
\* names a userId and however many users are connected, and no send is attempted.
C11_UnsupportedIntegrationIs400 ==
  [][ ( /\ lastOp'.op = "http"
        /\ lastOp'.req.method = "POST" /\ lastOp'.req.parses
        /\ lastOp'.req.integrationId \notin {"", "whatsapp"}
        /\ lastOp'.req.chatId # "" /\ lastOp'.req.text # "" )
        => /\ lastOp'.status = 400
           /\ lastOp'.sentTo = ""
           /\ lastOp'.sock = 0 ]_vars

\* C12: once an initialize() call has completed the flag is set, only
\* shutdown() clears it, and an initialize() call that finds it set starts no
\* integrations fetch, calls connectUser for no user and leaves the connection
\* map, the UserConnections and the credential files unchanged.
C12_InitializeIsNoOpOnceInitialized ==
  [][ /\ lastOp'.op = "initialized" => isInitialized'
      /\ (isInitialized /\ ~isInitialized') => lastOp'.op = "shutdown"
      /\ (lastOp'.op = "initialize" /\ isInitialized)
           => /\ inits' = inits
              /\ connections' = connections
              /\ conns' = conns
              /\ socks' = socks
              /\ creating' = creating
              /\ authFiles' = authFiles
              /\ isInitialized' ]_vars

\* a second initialize() call while the first one's sessions exist
C12_Witness ==
  /\ lastOp = [op |-> "initialize", started |-> FALSE]
  /\ isInitialized
  /\ \E u \in Users : connections[u] # 0

\* C13: an initialize() invocation ends only by completing; when it completes
\* it has called connectUser for exactly the fetched integrations that are
\* whatsapp and have credentials, in listing order, whichever of the calls
\* threw, every call that did not throw has a UserConnection, and the flag is set.
C13_InitializeAttemptsEveryUser ==
  [][ /\ Len(inits') < Len(inits) => lastOp'.op = "initialized"
      /\ lastOp'.op = "initialized"
           => LET wanted == SelectSeq(lastOp'.fetched,
                              LAMBDA i : i.integrationId = "whatsapp" /\ i.credentials.name # "none")
                  done == lastOp'.attempted IN
              /\ isInitialized'
              /\ done = [k \in 1..Len(wanted) |-> wanted[k].userId]
              /\ \A k \in 1..Len(done) :
                   k \notin lastOp'.failed
                     => \E c \in 1..Len(conns') : conns'[c].userId = done[k] ]_vars

\* the first user's connect threw and the second user was connected all the same
C13_Witness ==
  /\ lastOp.op = "initialized"
  /\ Len(lastOp.attempted) = 2
  /\ lastOp.failed = {1}
  /\ \E c \in 1..Len(conns) : conns[c].userId = lastOp.attempted[2] /\ conns[c].socket # 0
  /\ isInitialized

\* C17: shutdown() leaves the connection map empty and the flag false, and
\* every socket that was stored in the map is closed unless its end() threw;
\* an initialize() call that finds the flag false starts a fetch; and
\* disconnectUser(userId) removes the entry of userId whether end() returns or throws.
C17_ShutdownClearsMapAndFlag ==
  [][ /\ lastOp'.op = "shutdown"
           => /\ \A u \in Users : connections'[u] = 0
              /\ ~isInitialized'
              /\ \A u \in Users :
                   (connections[u] # 0 /\ conns[connections[u]].socket # 0
                      /\ lastOp'.endOk[u])
                     => socks'[conns[connections[u]].socket].state = "closed"
      /\ (lastOp'.op = "initialize" /\ ~isInitialized)
           => /\ lastOp'.started
              /\ Len(inits') = Len(inits) + 1
              /\ inits'[Len(inits')].stage = "fetch"
      /\ lastOp'.op = "disconnectUser" => connections'[lastOp'.userId] = 0 ]_vars

\* a shutdown of two sessions where end() closed one socket and threw on the other
C17_Witness ==
  /\ lastOp.op = "shutdown"
  /\ lastOp.endOk = [u \in Users |-> u = "u1"]
  /\ \A u \in Users : connections[u] = 0
  /\ ~isInitialized
  /\ \E c, d \in 1..Len(conns) :
       /\ conns[c].userId = "u1" /\ conns[c].socket # 0
       /\ socks[conns[c].socket].state = "closed"
       /\ conns[c].error = DisconnectError(undefinedCode)
       /\ conns[d].userId = "u2" /\ conns[d].socket # 0
       /\ socks[conns[d].socket].state = "open"

\* C14: forwardToRaccoonAI posts nothing and returns a failure when the
\* bridge is not enabled (error "Bridge is disabled" when enabled is false) or
\* no webhook URL is configured; otherwise it posts the payload exactly once,
\* also when the response is not 2xx or the request fails, which it reports
\* as a failure with an error; and it always returns a result with a boolean
\* success.
C14_ForwardPostsAtMostOnce ==
  [][ lastOp'.op = "forward"
        => LET r == lastOp'.result
               out == lastOp'.outcome IN
           /\ (bridgeConfig.enabled # "true" \/ bridgeConfig.webhookUrl = "")
                => (netCalls' = netCalls /\ r.posted = <<>> /\ ~r.success)
           /\ bridgeConfig.enabled = "false" => r.error = <<"Bridge is disabled">>
           /\ (bridgeConfig.enabled = "true" /\ bridgeConfig.webhookUrl # "")
                => /\ netCalls' = netCalls + 1
                   /\ r.posted = <<lastOp'.payload>>
                   /\ (out.kind = "reject" \/ out.status \notin 200..299)
                        => (~r.success /\ r.error # <<>>)
           /\ r.success \in BOOLEAN ]_vars

\* a webhook that answered 500 "oops": one POST, a structured failure
C14_Witness ==
  /\ lastOp.op = "forward"
  /\ lastOp.outcome.kind = "response"
  /\ lastOp.outcome.status = 500
  /\ lastOp.result.success = FALSE
  /\ lastOp.result.error = <<"HTTP ", 500, ": ", "oops">>
  /\ Len(lastOp.result.posted) = 1
  /\ netCalls = MaxForwards

\* C15: a message without a conversation identifier, from a status or
\* broadcast conversation, sent by self, or whose extracted text is empty or
\* whitespace only never gets a handler suspended on it (no group-subject
\* lookup, no read receipt, no callback), and every callback invocation is for
\* a message that is none of these.
C15_DroppedMessagesReachNothing ==
  [][ LET Dropped(m) == \/ m.kind \in {"none", "status", "broadcast"}
                        \/ m.fromMe
                        \/ \A k \in 1..Len(m.text) : m.text[k] = " " IN
      /\ \A h \in upserts' : ~Dropped(Head(h.msgs))
      /\ \A k \in (Len(delivered) + 1)..Len(delivered') :
           \E h \in upserts' : /\ h.stage = "callback"
                               /\ Head(h.msgs).id = delivered'[k].id
                               /\ ~Dropped(Head(h.msgs)) ]_vars

\* a batch of a kept message and a group message of blanks: the handler has
\* come back from the callback for the first and dropped the second without
\* a lookup, a receipt or a callback
C15_Witness ==
  /\ lastOp.op = "resume"
  /\ lastOp.h.stage = "callback"
  /\ Len(lastOp.h.msgs) = 2
  /\ lastOp.h.msgs[2].kind = "group"
  /\ lastOp.h.msgs[2].text = <<" ", " ">>
  /\ upserts = {}
  /\ delivered # <<>>
  /\ delivered[Len(delivered)].id = lastOp.h.msgs[1].id

\* C16: when the promise of the callback rejects, the UserConnections, the
\* sockets and the map are unchanged and the handler goes on with the next
\* message of the batch that is to be normalized: it is suspended on that
\* message (at the lookup, the receipt or the callback), and a direct message
\* without an id is handed to the callback in the same step.
C16_CallbackErrorDoesNotStopSession ==
  [][ ( /\ lastOp'.op = "resume"
        /\ lastOp'.settled = "rejected"
        /\ lastOp'.h.stage = "callback"
        /\ lastOp'.h \in upserts )
        => LET h == lastOp'.h
               rest == Tail(h.msgs)
               Kept(m) == /\ m.kind \notin {"none", "status", "broadcast"}
                          /\ ~m.fromMe
                          /\ \E k \in 1..Len(m.text) : m.text[k] # " "
               kept == {k \in 1..Len(rest) : Kept(rest[k])} IN
           /\ conns' = conns
           /\ socks' = socks
           /\ connections' = connections
           /\ kept = {} => (upserts' = upserts \ {h} /\ delivered' = delivered)
           /\ kept # {}
                => LET n == rest[CHOOSE k \in kept : \A j \in kept : k <= j] IN
                   /\ \E g \in upserts' : g.sock = h.sock /\ Head(g.msgs).id = n.id
                   /\ (n.kind = "direct" /\ ~n.hasId)
                        => /\ Len(delivered') = Len(delivered) + 1
                           /\ delivered'[Len(delivered')].id = n.id
                           /\ delivered'[Len(delivered')].sock = h.sock ]_vars

\* the callback rejected for the first message of a batch and was invoked
\* for the second, on a session that is still connected
C16_Witness ==
  /\ lastOp.op = "resume"
  /\ lastOp.settled = "rejected"
  /\ lastOp.h.stage = "callback"
  /\ Len(lastOp.h.msgs) = 2
  /\ Len(delivered) = 2
  /\ delivered[1].id = lastOp.h.msgs[1].id
  /\ delivered[2].id = lastOp.h.msgs[2].id
  /\ conns[socks[lastOp.h.sock].owner].status = "connected"
  /\ socks[lastOp.h.sock].state = "open"

\* C18: getUserIdByPhone(p) returns the first userId, in the order of the
\* map, whose stored phone, taken by its digits, ends with the digits of p or
\* is an ending of them, and none when no session's phone matches so.
C18_PhoneMatchesByDigits ==
  [][ lastOp'.op = "getUserIdByPhone"
        => LET DigitsOf(ph) == SelectSeq(ph, LAMBDA ch : ch \in Digits)
               Suffix(a, b) == /\ Len(b) <= Len(a)
                               /\ \A k \in 1..Len(b) : a[Len(a) - Len(b) + k] = b[k]
               input == DigitsOf(lastOp'.phone)
               Matches(u) ==
                 LET stored == conns[connections[u]].phone IN
                 /\ stored # NoPhone
                 /\ (Suffix(DigitsOf(stored), input) \/ Suffix(input, DigitsOf(stored)))
               hits == {k \in 1..Len(keyOrder) : Matches(keyOrder[k])} IN
           /\ hits = {} => lastOp'.result = "none"
           /\ hits # {}
                => lastOp'.result = keyOrder[CHOOSE k \in hits : \A j \in hits : k <= j] ]_vars

\* C19: a writeCredentials of the map that the previous writeCredentials
\* wrote leaves every file of the directory as it is; a key whose value is
\* null or absent neither creates nor changes its file; each other key's file
\* holds the value written, and the primary record, when it is an object, has
\* registered true.
C19_WriteCredentialsIdempotent ==
  [][ lastOp'.op = "writeCredentials"
        => LET credentials == lastOp'.credentials IN
           /\ (lastOp.op = "writeCredentials" /\ lastOp.credentials = credentials)
                => credDir' = credDir
           /\ \A f \in FileNames :
                /\ credentials[f].shape = "null" => credDir'[f] = credDir[f]
                /\ credentials[f].shape # "null"
                     => /\ credDir'[f].shape = credentials[f].shape
                        /\ credDir'[f].body = credentials[f].body
           /\ credDir'["keys"].registered = "missing"
           /\ credDir'["creds"].shape = "object" => credDir'["creds"].registered = "true" ]_vars

\* the second write of a map whose primary record says registered false and
\* whose keys entry is null, over a directory that has a keys file
C19_Witness ==
  /\ lastOp.op = "writeCredentials"
  /\ lastOp.before = credDir
  /\ lastOp.credentials["creds"] = Json("object", "a", "false")
  /\ lastOp.credentials["keys"] = Null
  /\ credDir["creds"] = Json("object", "a", "true")
  /\ credDir["keys"].shape = "object"

\* C20: no two sockets that can still emit events (not closed) belong to
\* UserConnections of the same userId, so a user's inbound messages reach the
\* callback from one socket only.
C20_OneLiveSocketPerUser ==
  \A s1, s2 \in 1..Len(socks) :
    ( /\ s1 # s2
      /\ socks[s1].state # "closed"
      /\ socks[s2].state # "closed" )
      => conns[socks[s1].owner].userId # conns[socks[s2].owner].userId

\* C21: once socket creation has finished for the UserConnection most recently
\* constructed for a user, and the user is absent from the connection map, every
\* socket of that UserConnection has closed.
C21_NoSocketForAbsentUser ==
  \A s \in 1..Len(socks) :
    LET c == socks[s].owner
        u == conns[c].userId IN
    ( /\ connections[u] = 0
      /\ creating[c] = 0
      /\ \A c2 \in (c + 1)..Len(conns) : conns[c2].userId # u )
      => socks[s].state = "closed"

C6_DeliveredInEmissionOrder ==
  \A i, j \in 1..Len(delivered) :
    (i < j /\ delivered[i].sock = delivered[j].sock)
      => delivered[i].id < delivered[j].id
====
